---- MODULE Spec2Model ----
(***************************************************************************)
(* A model of restinfront's Model class (src/src/Model.js): one live       *)
(* instance (an item or a collection), its collection algebra, its         *)
(* validator and its HTTP lifecycle.                                       *)
(*                                                                         *)
(* JavaScript values are encoded as follows.                               *)
(*   - null / undefined : the empty sequence <<>>; a present value v is    *)
(*     <<v>> (None / Some).                                                *)
(*   - an object        : a function from property names to values.        *)
(*   - object identity  : the oid field of an item record; a newly         *)
(*     constructed instance takes an oid no live instance has.             *)
(*   - a pathname       : the sequence of its segments ('' is <<>>).       *)
(***************************************************************************)
EXTENDS Integers, Sequences, FiniteSets, TLC

\* ---------------------------------------------------------------- bounds
\* Longest collection the environment lets the instance grow to.
MaxLen == 3
\* Longest collection the caller builds with add() and toggle().
MaxItems == 2
\* Number of getMore() pages requested after a get().
MaxPages == 1
\* Longest HasMany collection an item is constructed with.
MaxPlans == 2
\* Largest count a collection is cleared at.
MaxCount == 4

\* ------------------------------------------------------ program constants
\* searchParams.limit ??= 20
DefaultLimit == 20
\* searchParams.offset ??= 0
DefaultOffset == 0

\* ------------------------------------------------------------ value sets
\* Primary key values (strings, as the JSDoc of find/exists/remove states).
Keys == {"a", "b"}
\* A value that is not a string (a number, say).
NotAString == "#7"
\* Values of the `name` field: "" is blank, "x" a valid string, and one
\* value the string type rejects.
Names == {"", "x", NotAString}
\* Limits a caller passes to get(); <<>> is "not given".
LimitArgs == {<<>>, <<1>>}
\* Totals a paginated response reports: below, at and above a page's length.
Totals == {1}
\* Pages of rows a response carries (each row an object holding its key).
RowSeqs == {<<>>, <<"b">>, <<"a", "b">>}

None == <<>>
Some(v) == <<v>>

\* has(obj, key) of utilib: own-property test.
has(obj, key) == key \in DOMAIN obj

VARIABLES
  isCollection,   \* COLLECTION_SYMBOL in this.$restinfront
  endpoint,       \* static endpoint is configured (non-empty)
  authentication, \* static authentication is a function (not false)
  isNew,          \* this.$restinfront.isNew : "true" | "false" | "undefined"
  fields,         \* the instance's own data properties
  validator,      \* this.$restinfront.validator : field -> [checked]
  items,          \* this[COLLECTION_KEY]
  count,          \* this.$restinfront.count
  states,         \* this.$restinfront.fetch.states
  fetchSave,      \* this.$restinfront.fetch.save
  fetchOptions,   \* this.$restinfront.fetch.options
  response,       \* this.$restinfront.fetch.response
  call,           \* the fetch-derived call in progress or last finished,
                  \* or the last call that threw at its mode guard
  lastValid,      \* outcome of the last valid() call
  hist,           \* the last two add/remove/toggle calls made in a row,
                  \* most recent first
  statics,        \* the class: static schema and primaryKeyFieldname
  built,          \* the last constructor call: its input and what it did
  inflight        \* the fetch() calls that overlap on the instance

vars == <<isCollection, endpoint, authentication, isNew, fields, validator,
          items, count, states, fetchSave, fetchOptions, response, call,
          lastValid, hist, statics, built, inflight>>

\* What the operations of one instance used by one caller, one call at a
\* time, leave alone.
aux == <<statics, built, inflight>>

\* ---------------------------------------------------------------- schema
\* The compiled schema of the modelled class: `id` (primary key) and `name`,
\* both of a string field type, neither with allowBlank nor a custom isValid.
SchemaFields == {"id", "name"}
primaryKeyFieldname == "id"

\* fieldconf.autoChecked ??= primaryKey || createdAt/updatedAt || false
autoChecked(f) == f = primaryKeyFieldname \/ f \in {"createdAt", "updatedAt"}

\* Field type capability of a string type.
TypeDefaultValue == ""
TypeIsBlank(v) == v = ""
TypeIsValid(v) == v # NotAString

\* A validator that accepts every value.
isValidPermissive(f, v) == TRUE

\* validator[fieldname].isValid(value, data), with the schema's defaults
\* allowBlank = () => false and isValid = () => true.
isValid(f, v) ==
  LET isBlank == TypeIsBlank(v)
      allowBlank == FALSE
      custom == TRUE
  IN  ((isBlank /\ allowBlank) \/ (~isBlank /\ TypeIsValid(v))) /\ custom

\* static _buildValidator(): one entry per schema field.
buildValidator == [f \in SchemaFields |-> [checked |-> autoChecked(f)]]

\* ------------------------------------------------------------- the class
\* undefined, and JavaScript truthiness of a string or undefined.
Undefined == "undefined"
truthy(v) == v \notin {"", Undefined}

\* A field as a raw schema declares it. `type` tells whether the type
\* attribute is there; primaryKey and autoChecked are absent (<<>>) or hold
\* a boolean; defaultValue is absent, a plain value, or a function (here
\* one that returns the primary key it is passed, as an association's does).
RawField(name, type, primaryKey, defaultValue, autoCheck) ==
  [name |-> name, type |-> type, primaryKey |-> primaryKey,
   defaultValue |-> defaultValue, autoChecked |-> autoCheck,
   compiled |-> FALSE]
PlainDefault(v) == [kind |-> "value", value |-> v]
FunctionDefault == [kind |-> "function", value |-> ""]

\* The class as declared: static schema = false, primaryKeyFieldname = null.
NoClass == [schema |-> None, primaryKeyFieldname |-> None, err |-> "none"]

\* init(), body of the loop for one field that has a type: the default
\* value made a function, autoChecked defaulted.
compileField(conf) ==
  [conf EXCEPT
     !.defaultValue =
        IF conf.defaultValue = None
        THEN Some([kind |-> "thunk", value |-> TypeDefaultValue])
        ELSE IF conf.defaultValue[1].kind = "function" THEN conf.defaultValue
        ELSE Some([kind |-> "thunk", value |-> conf.defaultValue[1].value]),
     !.autoChecked =
        IF conf.autoChecked # None THEN conf.autoChecked
        ELSE Some(conf.primaryKey = Some(TRUE)
                  \/ conf.name \in {"createdAt", "updatedAt"}),
     !.compiled = TRUE]

\* static init({ schema }): the fields are compiled in order, up to the
\* first one without a type (init throws there); every field marked
\* primaryKey sets primaryKeyFieldname, so the last one names it.
init(cls, raw) ==
  LET bad == {i \in DOMAIN raw : ~raw[i].type}
      firstBad == IF bad = {} THEN Len(raw) + 1
                  ELSE CHOOSE i \in bad : \A j \in bad : i <= j
      pks == {i \in 1..(firstBad - 1) : raw[i].primaryKey = Some(TRUE)}
  IN  [schema |-> Some([i \in DOMAIN raw |->
                          IF i < firstBad THEN compileField(raw[i]) ELSE raw[i]]),
       primaryKeyFieldname |->
         IF pks = {} THEN cls.primaryKeyFieldname
         ELSE Some(raw[CHOOSE i \in pks : \A j \in pks : i >= j].name),
       err |-> IF bad = {} THEN "none" ELSE "RestinfrontError:type"]

\* The class of the instance: id (primary key) and name.
UserRawSchema ==
  <<RawField("id", TRUE, Some(TRUE), None, None),
    RawField("name", TRUE, None, None, None)>>
UserClass == init(NoClass, UserRawSchema)
\* The same with the HasMany association `plans`.
UserWithPlansClass ==
  init(NoClass, UserRawSchema \o <<RawField("plans", TRUE, None, None, None)>>)

\* fieldconf.defaultValue(primaryKey) of a compiled field.
callDefault(defaultValue, arg) ==
  IF defaultValue.kind = "function" THEN arg ELSE defaultValue.value

SchemaNames(schema) == {schema[i].name : i \in DOMAIN schema}
fieldconf(schema, f) == schema[CHOOSE i \in DOMAIN schema : schema[i].name = f]

\* static _buildRawItem(item): the primary key is resolved first (from
\* item.primaryKey, item[primaryKeyFieldname] or the key field's default,
\* the first that is truthy), then every schema field is filled in. It
\* throws a TypeError when the default is needed and the schema has no
\* field named by primaryKeyFieldname.
buildRawItem(cls, item) ==
  LET schema == cls.schema[1]
      pkName == cls.primaryKeyFieldname
      supplied ==
        IF has(item, "primaryKey") /\ truthy(item["primaryKey"])
        THEN Some(item["primaryKey"])
        ELSE IF pkName # None /\ has(item, pkName[1]) /\ truthy(item[pkName[1]])
        THEN Some(item[pkName[1]])
        ELSE None
      throws == supplied = None
                /\ (pkName = None \/ pkName[1] \notin SchemaNames(schema))
      primaryKey ==
        IF supplied # None THEN supplied[1]
        ELSE callDefault(fieldconf(schema, pkName[1]).defaultValue[1], Undefined)
  IN  IF throws
      THEN [threw |-> TRUE, data |-> <<>>, defaultArgs |-> <<>>]
      ELSE [threw |-> FALSE,
            data |-> [f \in SchemaNames(schema) |->
                        IF Some(f) = pkName THEN primaryKey
                        ELSE IF has(item, f) THEN item[f]
                        ELSE callDefault(fieldconf(schema, f).defaultValue[1],
                                         primaryKey)],
            defaultArgs |->
              [f \in {g \in SchemaNames(schema) : Some(g) # pkName /\ ~has(item, g)}
                 |-> primaryKey]]

\* ------------------------------------------------------------- identity
Oids(seq) == {seq[i].oid : i \in DOMAIN seq}

\* The i-th smallest object identity that no instance of `used` has.
FreshOid(i, used) ==
  LET avail == (1..(Cardinality(used) + i)) \ used
  IN  CHOOSE x \in avail : Cardinality({y \in avail : y < x}) = i - 1

\* new Model(rows, options): an empty collection, then add(row) for each
\* row, each one a newly constructed instance.
NewItems(rows, used) ==
  [i \in 1..Len(rows) |-> [oid |-> FreshOid(i, used), id |-> rows[i]]]

\* ---------------------------------------------------------- fetch state
IdleFlags == [progressing |-> FALSE, succeeded |-> FALSE, failed |-> FALSE]

\* The constructor's this.$restinfront.fetch.states: the global flags and
\* the `get` sub-state. (The item's `save` sub-state is created beside it,
\* at this.$restinfront.fetch.save.)
InitStates ==
  [progressing |-> FALSE, succeeded |-> FALSE, succeededOnce |-> FALSE,
   failed |-> FALSE, get |-> IdleFlags]

NoCall ==
  [op |-> "none", method |-> "none", pc |-> "none", err |-> "none",
   url |-> None, sent |-> <<>>, aborted |-> FALSE, onFetchError |-> <<>>,
   body |-> None, pre |-> None, remembered |-> None]

NoValid ==
  [called |-> FALSE, fieldlist |-> <<>>, result |-> FALSE, errors |-> <<>>,
   notified |-> FALSE]

\* What a call's caller can compare the instance with afterwards.
Snapshot ==
  [fields |-> fields, items |-> items, count |-> count, isNew |-> isNew]

\* No fetch is in flight (sequential use: the caller awaits each call).
CallIdle == call.pc \in {"none", "resolved", "rejected"}

\* constructor(data, options), item branch, for a new item.
InitItem ==
  /\ isCollection = FALSE
  /\ isNew = "true"
  /\ \E k \in Keys, given \in SUBSET {"name"}, n \in Names :
       fields = buildRawItem(UserClass,
                             [f \in {"id"} \cup given |->
                                IF f = "id" THEN k ELSE n]).data
  /\ validator = buildValidator
  /\ items = <<>>
  /\ count = 0

\* constructor(data, options), collection branch.
InitCollection ==
  /\ isCollection = TRUE
  /\ isNew = "undefined"
  /\ fields = <<>>
  /\ validator = <<>>
  /\ \E rows \in {<<>>, <<"a">>} :
       /\ items = NewItems(rows, {})
       /\ count = Len(rows)

InitFetchState ==
  /\ states = InitStates
  /\ fetchSave = IdleFlags
  /\ fetchOptions = None
  /\ response = None
  /\ call = NoCall
  /\ lastValid = NoValid
  /\ hist = <<>>
  /\ built = None
  /\ inflight = <<>>

Init ==
  /\ endpoint \in BOOLEAN
  /\ authentication \in BOOLEAN
  /\ InitItem \/ InitCollection
  /\ InitFetchState
  /\ statics = UserClass

\* ------------------------------------------------------------------ HTTP
\* _buildRequestUrl({pathname, searchParams}): the joined path and the
\* query entries in order (none of them is undefined here).
buildRequestUrl(options) ==
  [path |-> <<"endpoint">> \o options.pathname,
   query |-> IF options.searchParams = None THEN None
             ELSE Some(<<<<"limit", options.searchParams[1].limit>>,
                         <<"offset", options.searchParams[1].offset>>>>)]

\* The rest of _buildRequestInit once the token is known, then fetch()'s
\* setTimeout and its call of the transport: POST/PUT/PATCH serialize the
\* body with JSON.stringyfy, which is not a function.
issueRequest(c) ==
  IF c.method \in {"POST", "PUT", "PATCH"}
  THEN [c EXCEPT !.pc = "rejected", !.err = "TypeError"]
  ELSE [c EXCEPT !.pc = "request",
                 !.sent = Append(@, [method |-> c.method, url |-> c.url[1],
                                     bearer |-> authentication])]

\* _buildRequestInit(options) up to its first suspension: with
\* authentication configured it awaits the token provider.
buildRequestInit(c) ==
  IF authentication THEN [c EXCEPT !.pc = "token"] ELSE issueRequest(c)

\* A reset that clears the latch with the other flags.
resetStatesAll(st) ==
  [st EXCEPT !.progressing = TRUE, !.failed = FALSE, !.succeeded = FALSE,
             !.succeededOnce = FALSE]

\* fetch(), "Reset fetch states".
resetStates(st) ==
  [st EXCEPT !.progressing = TRUE, !.failed = FALSE, !.succeeded = FALSE]

\* fetch(), "Set states to success" (the operation's sub-state exists).
succeedStates(st, method) ==
  LET g == [st EXCEPT !.succeeded = TRUE, !.succeededOnce = TRUE]
  IN  IF method = "GET" THEN [g EXCEPT !.get.succeeded = TRUE]
      ELSE [g EXCEPT !.save.succeeded = TRUE]

\* A catch block that sets the global flag only.
failStatesGlobalOnly(st, method) == [st EXCEPT !.failed = TRUE]

\* fetch(), catch block, "Set states to failure".
failStates(st, method) ==
  LET g == [st EXCEPT !.failed = TRUE]
  IN  IF method = "GET" THEN [g EXCEPT !.get.failed = TRUE]
      ELSE [g EXCEPT !.save.failed = TRUE]

\* fetch(), "Progressing done".
doneStates(st, method) ==
  IF method = "GET" THEN [st EXCEPT !.get.progressing = FALSE]
  ELSE [st EXCEPT !.save.progressing = FALSE]

\* fetch(options) from its entry to its first suspension. `remembered` is
\* this.$restinfront.fetch.options as the caller left it, `pre` the
\* instance as it was when the public method was called, `seen` the
\* remembered request getMore() read when it was called.
fetch(op, options, remembered, pre, seen) ==
  LET c0 == [NoCall EXCEPT !.op = op, !.method = options.method,
                           !.pre = Some(pre), !.remembered = seen]
  IN
  IF ~endpoint
  THEN /\ call' = [c0 EXCEPT !.pc = "rejected", !.err = "RestinfrontError:endpoint"]
       /\ fetchOptions' = remembered
       /\ UNCHANGED <<response, states>>
  ELSE /\ fetchOptions' = Some(options)
       /\ response' = None
       /\ IF options.method = "GET"
          THEN /\ states' = [resetStates(states) EXCEPT
                               !.get = [progressing |-> TRUE, succeeded |-> FALSE,
                                        failed |-> FALSE]]
               /\ call' = buildRequestInit(
                            [c0 EXCEPT !.url = Some(buildRequestUrl(options))])
          ELSE IF has(states, "save")
          THEN /\ states' = [resetStates(states) EXCEPT
                               !.save = [progressing |-> TRUE, succeeded |-> FALSE,
                                         failed |-> FALSE]]
               /\ call' = buildRequestInit(
                            [c0 EXCEPT !.url = Some(buildRequestUrl(options))])
          \* this.$restinfront.fetch.states.save is undefined: TypeError
          ELSE /\ states' = resetStates(states)
               /\ call' = [c0 EXCEPT !.pc = "rejected", !.err = "TypeError"]

\* A guard that lets every instance through.
neverThrows == FALSE

\* _allowCollection() throws: the instance is not a collection.
allowCollectionThrows == ~isCollection

\* _denyCollection() throws: the instance is a collection.
denyCollectionThrows == isCollection

\* The call throws the guard's RestinfrontError before it does anything
\* (for an async method: its promise is rejected with it).
thrown(err) == call' = [NoCall EXCEPT !.pc = "rejected", !.err = err]
MustBeCollection == "RestinfrontError:MUST be called by a collection"
CannotBeCollection == "RestinfrontError:CANNOT be called by a collection"

\* Pathnames a caller passes.
CollectionPathnames == {<<>>, <<"top">>}
ItemPathnames == {<<k>> : k \in Keys}

\* get(pathname, searchParams)
Get ==
  /\ CallIdle
  /\ IF isCollection
     THEN \E pathname \in CollectionPathnames, limit \in LimitArgs :
            fetch("get",
                  [extend |-> Some(FALSE), method |-> "GET", pathname |-> pathname,
                   searchParams |->
                     Some([limit |-> IF limit = None THEN DefaultLimit ELSE limit[1],
                           offset |-> DefaultOffset])],
                  fetchOptions, Snapshot, None)
     ELSE \E pathname \in ItemPathnames :
            fetch("get",
                  [extend |-> None, method |-> "GET", pathname |-> pathname,
                   searchParams |-> None],
                  fetchOptions, Snapshot, None)
  /\ hist' = <<>>
  /\ UNCHANGED <<isCollection, endpoint, authentication, isNew, fields,
                 validator, items, count, fetchSave, lastValid>>
  /\ UNCHANGED aux

\* getMore(): the offset of the remembered searchParams object is advanced
\* in place, then the same object is sent again.
GetMore ==
  /\ CallIdle
  /\ IF allowCollectionThrows
     THEN /\ thrown(MustBeCollection)
          /\ UNCHANGED <<fetchOptions, response, states>>
     ELSE IF fetchOptions = None
     \* this.$restinfront.fetch.options is null: TypeError
     THEN /\ call' = [NoCall EXCEPT !.op = "getMore", !.method = "GET",
                                    !.pc = "rejected", !.err = "TypeError",
                                    !.pre = Some(Snapshot)]
          /\ UNCHANGED <<fetchOptions, response, states>>
     ELSE LET old == fetchOptions[1]
              sp == [old.searchParams[1] EXCEPT !.offset = @ + old.searchParams[1].limit]
              advanced == [old EXCEPT !.searchParams = Some(sp)]
          IN  /\ sp.offset <= MaxPages * sp.limit
              /\ fetch("getMore",
                       [extend |-> Some(TRUE), method |-> "GET",
                        pathname |-> advanced.pathname,
                        searchParams |-> advanced.searchParams],
                       Some(advanced), Snapshot, fetchOptions)
  /\ hist' = <<>>
  /\ UNCHANGED <<isCollection, endpoint, authentication, isNew, fields,
                 validator, items, count, fetchSave, lastValid>>
  /\ UNCHANGED aux

\* joinPaths(this[primaryKeyFieldname], pathname)
joinPaths(first, pathname) == <<first>> \o pathname

\* post(pathname)
post(op, pathname) ==
  fetch(op, [extend |-> None, method |-> "POST", pathname |-> pathname,
             searchParams |-> None], fetchOptions, Snapshot, None)

\* put(pathname)
put(op, pathname) ==
  fetch(op, [extend |-> None, method |-> "PUT",
             pathname |-> joinPaths(fields[primaryKeyFieldname], pathname),
             searchParams |-> None], fetchOptions, Snapshot, None)

Post ==
  /\ CallIdle
  /\ IF denyCollectionThrows
     THEN /\ thrown(CannotBeCollection)
          /\ UNCHANGED <<fetchOptions, response, states>>
     ELSE post("post", <<>>)
  /\ hist' = <<>>
  /\ UNCHANGED <<isCollection, endpoint, authentication, isNew, fields,
                 validator, items, count, fetchSave, lastValid>>
  /\ UNCHANGED aux

Put ==
  /\ CallIdle
  /\ IF denyCollectionThrows
     THEN /\ thrown(CannotBeCollection)
          /\ UNCHANGED <<fetchOptions, response, states>>
     ELSE put("put", <<>>)
  /\ hist' = <<>>
  /\ UNCHANGED <<isCollection, endpoint, authentication, isNew, fields,
                 validator, items, count, fetchSave, lastValid>>
  /\ UNCHANGED aux

\* patch(pathname)
Patch ==
  /\ CallIdle
  /\ IF denyCollectionThrows
     THEN /\ thrown(CannotBeCollection)
          /\ UNCHANGED <<fetchOptions, response, states>>
     ELSE fetch("patch", [extend |-> None, method |-> "PATCH",
                          pathname |-> joinPaths(fields[primaryKeyFieldname], <<>>),
                          searchParams |-> None], fetchOptions, Snapshot, None)
  /\ hist' = <<>>
  /\ UNCHANGED <<isCollection, endpoint, authentication, isNew, fields,
                 validator, items, count, fetchSave, lastValid>>
  /\ UNCHANGED aux

\* save(pathname): post if the item is new, else put.
Save ==
  /\ CallIdle
  /\ IF denyCollectionThrows
     THEN /\ thrown(CannotBeCollection)
          /\ UNCHANGED <<fetchOptions, response, states>>
     ELSE IF isNew = "true" THEN post("save", <<>>) ELSE put("save", <<>>)
  /\ hist' = <<>>
  /\ UNCHANGED <<isCollection, endpoint, authentication, isNew, fields,
                 validator, items, count, fetchSave, lastValid>>
  /\ UNCHANGED aux

\* The token provider resolved with a token: _buildRequestInit goes on.
TokenResolved ==
  /\ call.pc = "token"
  /\ call' = issueRequest(call)
  /\ UNCHANGED <<isCollection, endpoint, authentication, isNew, fields,
                 validator, items, count, states, fetchSave, fetchOptions,
                 response, lastValid, hist>>
  /\ UNCHANGED aux

\* The token provider resolved with a falsy value: _buildRequestInit throws,
\* and fetch() awaits it before its try block.
TokenFalsy ==
  /\ call.pc = "token"
  /\ call' = [call EXCEPT !.pc = "rejected", !.err = "RestinfrontError:token"]
  /\ UNCHANGED <<isCollection, endpoint, authentication, isNew, fields,
                 validator, items, count, states, fetchSave, fetchOptions,
                 response, lastValid, hist>>
  /\ UNCHANGED aux

\* setTimeout(() => abortController.abort(), 20000) fires.
AbortTimeout ==
  /\ call.pc = "request"
  /\ ~call.aborted
  /\ call' = [call EXCEPT !.aborted = TRUE]
  /\ UNCHANGED <<isCollection, endpoint, authentication, isNew, fields,
                 validator, items, count, states, fetchSave, fetchOptions,
                 response, lastValid, hist>>
  /\ UNCHANGED aux

\* A catch block that throws the error again after handling it.
catchErrorRethrow(resp, error) ==
  /\ response' = resp
  /\ states' = failStates(states, call.method)
  /\ call' = [call EXCEPT !.pc = "rejected", !.err = error,
                          !.onFetchError = Append(@, [error |-> error,
                                                      response |-> resp])]

\* fetch(), catch block and what follows it when the call did not succeed:
\* onFetchError({ error, response }), the failure flags, progressing done.
catchError(resp, error) ==
  /\ response' = resp
  /\ states' = doneStates(failStates(states, call.method), call.method)
  /\ call' = [call EXCEPT !.pc = "resolved",
                          !.onFetchError = Append(@, [error |-> error,
                                                      response |-> resp])]

\* The transport rejects: network failure, or the abort of the timeout.
TransportReject ==
  /\ call.pc = "request"
  /\ catchError(response, IF call.aborted THEN "AbortError" ELSE "TypeError:network")
  /\ UNCHANGED <<isCollection, endpoint, authentication, isNew, fields,
                 validator, items, count, fetchSave, fetchOptions, lastValid,
                 hist>>
  /\ UNCHANGED aux

\* The transport resolves with a response that is not ok.
ResponseNotOk ==
  /\ call.pc = "request"
  /\ ~call.aborted
  /\ catchError(Some([ok |-> FALSE, status |-> "5xx"]), "RestinfrontError:status")
  /\ UNCHANGED <<isCollection, endpoint, authentication, isNew, fields,
                 validator, items, count, fetchSave, fetchOptions, lastValid,
                 hist>>
  /\ UNCHANGED aux

\* The transport resolves with a 2xx response: the success flags are set and
\* fetch() awaits response.json().
ResponseOk ==
  /\ call.pc = "request"
  /\ ~call.aborted
  /\ response' = Some([ok |-> TRUE, status |-> "2xx"])
  /\ states' = succeedStates(states, call.method)
  /\ call' = [call EXCEPT !.pc = "json"]
  /\ UNCHANGED <<isCollection, endpoint, authentication, isNew, fields,
                 validator, items, count, fetchSave, fetchOptions, lastValid,
                 hist>>
  /\ UNCHANGED aux

\* ---------------------------------------------------------- server data
\* A JSON body is an array of rows (each row an object holding the primary
\* key) or an object.
ArrayBody(rows) == [kind |-> "array", rows |-> rows]
ObjectBody(data) == [kind |-> "object", data |-> data]
\* The wire contract of a list response: {rows: [...], count: n}.
PageBody(rows, total) == ObjectBody([rows |-> rows, count |-> total])

CollectionBodies ==
  {ArrayBody(rows) : rows \in RowSeqs}
  \cup {PageBody(rows, total) : rows \in RowSeqs, total \in Totals}

ItemBodies ==
  {ObjectBody([id |-> k, name |-> n]) : k \in Keys, n \in Names}
  \cup {ObjectBody([name |-> n]) : n \in Names}

\* has(serverData, key) on a parsed body.
bodyHas(serverData, key) ==
  serverData.kind = "object" /\ has(serverData.data, key)

\* Model.collectionDataKey / Model.collectionCountKey (static).
collectionDataKey == "rows"
collectionCountKey == "count"
\* this.collectionCountKey / this.collectionDataKey: the instance has no
\* such property, so the key looked up is undefined.
thisCollectionCountKey == "undefined"
thisCollectionDataKey == "undefined"

\* fetch(): whether the body is unwrapped as a page.
isPage(serverData) ==
  bodyHas(serverData, thisCollectionCountKey) /\ bodyHas(serverData, thisCollectionDataKey)

\* new this.constructor(data, dataOptions) on the body: a transient
\* collection (kind "collection") or a transient item hydrated with exactly
\* the supplied keys.
formatData(serverData, used) ==
  IF isPage(serverData)
  THEN [kind |-> "collection",
        items |-> NewItems(serverData.data[collectionDataKey], used),
        count |-> serverData.data[collectionCountKey]]
  ELSE IF serverData.kind = "array"
  THEN [kind |-> "collection",
        items |-> NewItems(serverData.rows, used),
        count |-> Len(serverData.rows)]
  ELSE [kind |-> "item", isNew |-> "false", data |-> serverData.data]

\* _mutateData(newData), collection branch: the items afterwards.
mutateItems(newData, extend) ==
  IF extend THEN items \o newData.items ELSE newData.items

\* this.constructor.schema[fieldname].type.association
association(fieldname) ==
  CASE fieldname = "plans" -> "HasMany"
    [] fieldname = "sponsor" -> "BelongsTo"
    [] fieldname = "profile" -> "HasOne"
    [] OTHER -> "none"

\* A field of the item that holds one nested instance or null.
holdsOne(fieldname) == association(fieldname) \in {"BelongsTo", "HasOne"}

\* this[key]._mutateData(value) on a nested item: the nested instance
\* afterwards, the same object with the incoming properties assigned.
mutateNested(current, value) ==
  [current EXCEPT !.data =
     [j \in DOMAIN current.data \cup DOMAIN value.data |->
        IF j \in DOMAIN value.data THEN value.data[j] ELSE current.data[j]]]

\* A merge that assigns every incoming value, nested instances included.
mutateFieldsAssign(newData) ==
  [k \in DOMAIN fields \cup DOMAIN newData.data |->
     IF k \in DOMAIN newData.data THEN newData.data[k] ELSE fields[k]]

\* _mutateData(newData), item branch: the own properties afterwards.
mutateFields(newData) ==
  [k \in DOMAIN fields \cup DOMAIN newData.data |->
     IF k \notin DOMAIN newData.data THEN fields[k]
     ELSE IF /\ holdsOne(k)
             /\ k \in DOMAIN fields
             /\ ~fields[k].isNull
             /\ ~newData.data[k].isNull
     THEN mutateNested(fields[k], newData.data[k])
     ELSE newData.data[k]]

\* _mutateData(newData)
mutateData(newData) ==
  IF newData.kind = "collection"
  THEN /\ items' = mutateItems(newData, fetchOptions # None
                                         /\ fetchOptions[1].extend = Some(TRUE))
       /\ count' = newData.count
       /\ UNCHANGED <<isNew, fields>>
  ELSE /\ isNew' = newData.isNew
       /\ fields' = mutateFields(newData)
       /\ UNCHANGED <<items, count>>

\* Identities the caller may still hold: the items of the instance now and
\* when the call started.
LiveOids == Oids(items) \cup Oids(call.pre[1].items)

\* response.json() resolves with serverData: the data is formatted and
\* merged, then the operation's progressing flag is cleared.
JsonResolved ==
  /\ call.pc = "json"
  /\ \E serverData \in (IF isCollection THEN CollectionBodies ELSE ItemBodies) :
       LET newData == formatData(serverData, LiveOids)
       IN  /\ newData.kind = "collection" =>
                Len(mutateItems(newData, fetchOptions[1].extend = Some(TRUE))) <= MaxLen
           /\ mutateData(newData)
           /\ call' = [call EXCEPT !.pc = "resolved", !.body = Some(serverData)]
  /\ states' = doneStates(states, call.method)
  /\ UNCHANGED <<isCollection, endpoint, authentication, validator, fetchSave,
                 fetchOptions, response, lastValid, hist>>
  /\ UNCHANGED aux

\* response.json() rejects (the body is not JSON): fetch() rejects there.
JsonRejected ==
  /\ call.pc = "json"
  /\ call' = [call EXCEPT !.pc = "rejected", !.err = "SyntaxError"]
  /\ UNCHANGED <<isCollection, endpoint, authentication, isNew, fields,
                 validator, items, count, states, fetchSave, fetchOptions,
                 response, lastValid, hist>>
  /\ UNCHANGED aux

\* ----------------------------------------------------------- validation
\* Field lists a caller passes to valid(): bare fieldnames, `zip` being no
\* property of the instance.
FieldLists == {<<"name">>, <<"id">>, <<"id", "name">>, <<"zip", "name">>}

Listed(fieldlist) == {fieldlist[i] : i \in DOMAIN fieldlist}

\* _getValidationErrors(fieldlist), direct fields: the errors Map.
getValidationErrors(fieldlist) ==
  LET bad == {f \in Listed(fieldlist) :
                ~has(fields, f) \/ ~isValid(f, fields[f])}
  IN  [f \in bad |->
         IF has(fields, f)
         THEN [error |-> "NOT_VALID", value |-> fields[f]]
         ELSE [error |-> "NOT_FOUND", value |-> ""]]

\* _getValidationErrors(fieldlist), direct fields: the validator afterwards.
checkFields(fieldlist) ==
  [f \in DOMAIN validator |->
     IF f \in Listed(fieldlist) /\ has(fields, f)
     THEN [validator[f] EXCEPT !.checked = TRUE]
     ELSE validator[f]]

\* valid(fieldlist)
Valid ==
  /\ IF denyCollectionThrows
     THEN /\ CallIdle
          /\ thrown(CannotBeCollection)
          /\ UNCHANGED <<validator, lastValid, fetchSave>>
     ELSE /\ \E fieldlist \in FieldLists :
               LET errors == getValidationErrors(fieldlist)
               IN  /\ validator' = checkFields(fieldlist)
                   /\ lastValid' = [called |-> TRUE, fieldlist |-> fieldlist,
                                    result |-> DOMAIN errors = {}, errors |-> errors,
                                    notified |-> DOMAIN errors # {}]
          /\ fetchSave' = IdleFlags
          /\ UNCHANGED call
  /\ hist' = <<>>
  /\ UNCHANGED <<isCollection, endpoint, authentication, isNew, fields, items,
                 count, states, fetchOptions, response>>
  /\ UNCHANGED aux

\* error(fieldname)
error(f) == validator[f].checked /\ ~isValid(f, fields[f])

\* A serialization that ignores removeInvalid.
beforeSerializeItemAll(removeInvalid) == [f \in DOMAIN validator |-> fields[f]]

\* _beforeSerializeItem({ removeInvalid }): the object emitted, one entry per
\* validator entry that passes the test (a string type's beforeSerialize
\* emits the string it is given).
beforeSerializeItem(removeInvalid) ==
  LET emitted == {f \in DOMAIN validator :
                    \/ ~removeInvalid
                    \/ (removeInvalid /\ validator[f].checked
                        /\ isValid(f, fields[f]))}
  IN  [f \in emitted |-> fields[f]]

\* The caller assigns a field of the item between two calls (`call` keeps
\* a finished call only until the caller changes the instance itself).
Assign ==
  /\ ~isCollection
  /\ CallIdle
  /\ \E n \in Names :
       /\ n # fields["name"]
       /\ fields' = [fields EXCEPT !["name"] = n]
  /\ call' = NoCall
  /\ UNCHANGED <<isCollection, endpoint, authentication, isNew, validator,
                 items, count, states, fetchSave, fetchOptions, response,
                 lastValid, hist>>
  /\ UNCHANGED aux

\* ------------------------------------------------------- specification
Next ==
  \/ Get
  \/ GetMore
  \/ Post
  \/ Put
  \/ Patch
  \/ Save
  \/ TokenResolved
  \/ TokenFalsy
  \/ AbortTimeout
  \/ TransportReject
  \/ ResponseNotOk
  \/ ResponseOk
  \/ JsonResolved
  \/ JsonRejected
  \/ Valid
  \/ Assign

Spec == Init /\ [][Next]_vars

\* The transport rejects a request whose signal has been aborted.
AbortedReject == call.aborted /\ TransportReject

\* What the runtime guarantees once a request is out: the timer armed by
\* setTimeout fires unless it is cleared first, and the transport rejects
\* the request once its signal is aborted. Nothing obliges the token
\* provider or the body's stream to settle, nor the caller to call again.
SpecLive ==
  /\ Init
  /\ [][Next]_vars
  /\ WF_vars(AbortTimeout)
  /\ WF_vars(AbortedReject)

\* ---------------------------------------------------- collection algebra
\* Instances the caller holds besides the collection's own items.
Pool == {[oid |-> 1, id |-> "a"], [oid |-> 2, id |-> "b"]}

\* What a caller passes as an item: a Model instance (one of the pool, in
\* the collection or not) or a plain object holding the primary key.
InstanceArg(it) == [kind |-> "instance", oid |-> it.oid, id |-> it.id]
ObjectArg(k) == [kind |-> "object", oid |-> 0, id |-> k]
ItemArgs == {InstanceArg(it) : it \in Pool} \cup {ObjectArg(k) : k \in Keys}

\* What a caller passes as a reference: a primary-key string, an object
\* holding the primary key, or a predicate (here: on the primary key).
ByKey(k) == [kind |-> "string", key |-> k, keys |-> {}]
ByObject(x) == [kind |-> "object", key |-> x.id, keys |-> {}]
ByPredicate(S) == [kind |-> "function", key |-> "", keys |-> S]
Predicates == {{"a"}}
Refs ==
  {ByKey(k) : k \in Keys} \cup {ByObject(x) : x \in ItemArgs}
  \cup {ByPredicate(S) : S \in Predicates}

\* static _getCollectionCallback(ref), applied to an item.
getCollectionCallback(ref, item) ==
  IF ref.kind = "function" THEN item[primaryKeyFieldname] \in ref.keys
  ELSE item[primaryKeyFieldname] = ref.key

\* items().findIndex(callback): the first matching index, 0 for -1.
findIndex(seq, ref) ==
  IF \E i \in DOMAIN seq : getCollectionCallback(ref, seq[i])
  THEN CHOOSE i \in DOMAIN seq :
         /\ getCollectionCallback(ref, seq[i])
         /\ \A j \in 1..(i - 1) : ~getCollectionCallback(ref, seq[j])
  ELSE 0

\* An every() in place of some().
existsEvery(seq, ref) == \A i \in DOMAIN seq : getCollectionCallback(ref, seq[i])

\* exists(ref): items().some(callback)
exists(seq, ref) == \E i \in DOMAIN seq : getCollectionCallback(ref, seq[i])

\* find(ref): items().find(callback) || null
find(seq, ref) ==
  IF findIndex(seq, ref) = 0 THEN None ELSE Some(seq[findIndex(seq, ref)])

\* A splice(index) without its delete count: everything from index on goes.
spliceRest(seq, index) == SubSeq(seq, 1, index - 1)

\* items().splice(index, 1): the items left.
splice(seq, index) ==
  SubSeq(seq, 1, index - 1) \o SubSeq(seq, index + 1, Len(seq))

\* A remove() that forgets the count.
countAfterRemoveKept(c) == c

\* remove(ref): this.$restinfront.count - 1
countAfterRemove(c) == c - 1

\* add(item): the instance pushed, `item` itself when it is an instance of
\* the model, else a newly constructed one.
addInstance(item, used) ==
  IF item.kind = "instance" THEN [oid |-> item.oid, id |-> item.id]
  ELSE [oid |-> FreshOid(1, used), id |-> item.id]

\* Identities in use: the pool's and those of the collection's items.
CollLiveOids == Oids(items) \cup {it.oid : it \in Pool}

NullResult == [kind |-> "null", items |-> <<>>]
\* splice() returns the array of the removed elements.
ArrayResult(removed) == [kind |-> "array", items |-> removed]
InstanceResult(it) == [kind |-> "instance", items |-> <<it>>]

\* The call is remembered, with the collection as it was before it.
Remember(op, item, ref, result) ==
  hist' = <<[op |-> op, item |-> item, ref |-> ref, result |-> result,
             pre |-> [items |-> items, count |-> count]]>>
          \o (IF hist = <<>> THEN <<>> ELSE <<hist[1]>>)

\* remove(ref), as a step of the instance.
remove(op, item, ref) ==
  LET indexToRemove == findIndex(items, ref)
  IN  IF indexToRemove = 0
      THEN /\ UNCHANGED <<items, count>>
           /\ Remember(op, item, Some(ref), NullResult)
      ELSE /\ count' = countAfterRemove(count)
           /\ items' = splice(items, indexToRemove)
           /\ Remember(op, item, Some(ref), ArrayResult(<<items[indexToRemove]>>))

\* add(item), as a step of the instance.
add(op, item, ref) ==
  LET instance == addInstance(item, CollLiveOids)
  IN  /\ Len(items) < MaxItems
      /\ items' = Append(items, instance)
      /\ count' = count + 1
      /\ Remember(op, Some(item), ref, InstanceResult(instance))

\* A collection method called on an item: this.items() throws.
notACollection ==
  /\ thrown(MustBeCollection)
  /\ hist' = <<>>
  /\ UNCHANGED <<items, count>>

Add ==
  /\ CallIdle
  /\ IF allowCollectionThrows
     THEN notACollection
     ELSE /\ \E item \in ItemArgs : add("add", item, None)
          /\ call' = NoCall
  /\ UNCHANGED <<isCollection, endpoint, authentication, isNew, fields,
                 validator, states, fetchSave, fetchOptions, response,
                 lastValid>>
  /\ UNCHANGED aux

Remove ==
  /\ CallIdle
  /\ IF allowCollectionThrows
     THEN notACollection
     ELSE /\ \E ref \in Refs : remove("remove", None, ref)
          /\ call' = NoCall
  /\ UNCHANGED <<isCollection, endpoint, authentication, isNew, fields,
                 validator, states, fetchSave, fetchOptions, response,
                 lastValid>>
  /\ UNCHANGED aux

\* toggle(item, callback): ref = callback || item
Toggle ==
  /\ CallIdle
  /\ IF allowCollectionThrows
     THEN notACollection
     ELSE /\ \E item \in ItemArgs,
                 callback \in {None} \cup {Some(S) : S \in Predicates} :
               LET ref == IF callback # None THEN ByPredicate(callback[1])
                          ELSE ByObject(item)
               IN  IF exists(items, ref)
                   THEN remove("toggle", Some(item), ref)
                   ELSE add("toggle", item, Some(ref))
          /\ call' = NoCall
  /\ UNCHANGED <<isCollection, endpoint, authentication, isNew, fields,
                 validator, states, fetchSave, fetchOptions, response,
                 lastValid>>
  /\ UNCHANGED aux

\* items(): returns the array, or throws on an item.
ItemsOp ==
  /\ CallIdle
  /\ IF allowCollectionThrows
     THEN notACollection
     ELSE /\ call' = NoCall
          /\ hist' = <<>>
          /\ UNCHANGED <<items, count>>
  /\ UNCHANGED <<isCollection, endpoint, authentication, isNew, fields,
                 validator, states, fetchSave, fetchOptions, response,
                 lastValid>>
  /\ UNCHANGED aux

\* find(ref): reads the items, or throws on an item.
Find ==
  /\ CallIdle
  /\ IF allowCollectionThrows
     THEN notACollection
     ELSE /\ call' = NoCall
          /\ hist' = <<>>
          /\ UNCHANGED <<items, count>>
  /\ UNCHANGED <<isCollection, endpoint, authentication, isNew, fields,
                 validator, states, fetchSave, fetchOptions, response,
                 lastValid>>
  /\ UNCHANGED aux

\* exists(ref): reads the items, or throws on an item.
Exists ==
  /\ CallIdle
  /\ IF allowCollectionThrows
     THEN notACollection
     ELSE /\ call' = NoCall
          /\ hist' = <<>>
          /\ UNCHANGED <<items, count>>
  /\ UNCHANGED <<isCollection, endpoint, authentication, isNew, fields,
                 validator, states, fetchSave, fetchOptions, response,
                 lastValid>>
  /\ UNCHANGED aux

\* clear(): this.items().splice(0, this.length); the count is not touched.
Clear ==
  /\ CallIdle
  /\ IF allowCollectionThrows
     THEN notACollection
     ELSE /\ items' = <<>>
          /\ call' = NoCall
          /\ hist' = <<>>
          /\ UNCHANGED count
  /\ UNCHANGED <<isCollection, endpoint, authentication, isNew, fields,
                 validator, states, fetchSave, fetchOptions, response,
                 lastValid>>
  /\ UNCHANGED aux

\* Counts a collection is constructed with: none given (the number of
\* items added), or the total of a larger list.
InitAlgebra ==
  /\ endpoint = TRUE
  /\ authentication = FALSE
  /\ isCollection = TRUE
  /\ isNew = "undefined"
  /\ fields = <<>>
  /\ validator = <<>>
  /\ \E rows \in {<<>>, <<"a">>}, total \in {None, Some(4)} :
       /\ items = NewItems(rows, {it.oid : it \in Pool})
       /\ count = IF total = None THEN Len(rows) ELSE total[1]
  /\ InitFetchState
  /\ statics = UserClass

NextAlgebra == Add \/ Remove \/ Toggle

SpecAlgebra == InitAlgebra /\ [][NextAlgebra]_vars

\* clear() among add() and remove() on a collection (add raises the count
\* that clear leaves alone: the calls are followed up to a bounded count).
ClearCollection == count <= MaxCount /\ Clear

NextClear == Add \/ Remove \/ ClearCollection

SpecClear == InitAlgebra /\ [][NextClear]_vars

\* ------------------------------------------------------ mode of an instance
\* A caller takes an item for a collection and calls a collection method
\* on it.
CollectionCallOnItem ==
  /\ ~isCollection
  /\ ItemsOp \/ Add \/ Remove \/ Find \/ Exists \/ Toggle \/ Clear

\* The instance's HTTP and validation methods (an item-only one may be
\* called on a collection, getMore() on an item), and the collection
\* methods called on an item.
NextMode == Next \/ CollectionCallOnItem

\* An item or a collection of a class with an endpoint and no
\* authentication.
InitMode ==
  /\ endpoint = TRUE
  /\ authentication \in BOOLEAN
  /\ InitItem \/ InitCollection
  /\ InitFetchState
  /\ statics = UserClass

SpecMode == InitMode /\ [][NextMode]_vars

\* ---------------------------------------------------- nested validation
\* The README's User has a HasMany association `plans` (FieldTypes.HASMANY),
\* each plan an item of its own with a `name` field and its own validator.
NewPlan(n) ==
  [data |-> [id |-> "a", name |-> n],
   validator |-> [id |-> [checked |-> TRUE], name |-> [checked |-> FALSE]]]


\* What a caller passes in a fieldlist: a bare fieldname, or a pair
\* [fieldname, fieldlist] for an association.
Leaf(f) == [kind |-> "string", name |-> f, list |-> <<>>]
Pair(f, list) == [kind |-> "array", name |-> f, list |-> list]
NestedLists == {<<>>, <<"name">>, <<"zip", "name">>}
NestedFieldLists ==
  {<<Pair("plans", list)>> : list \in NestedLists}
  \cup {<<Leaf("name"), Pair("plans", <<"name">>)>>, <<Pair("zip", <<"name">>)>>}

\* item._getValidationErrors(fieldlist) on an item of the association, for
\* a list of bare fieldnames: the errors Map.
getItemErrors(item, fieldlist) ==
  LET bad == {f \in Listed(fieldlist) :
                ~has(item.data, f) \/ ~isValid(f, item.data[f])}
  IN  [f \in bad |->
         IF has(item.data, f)
         THEN [error |-> "NOT_VALID", value |-> item.data[f]]
         ELSE [error |-> "NOT_FOUND", value |-> ""]]

\* item._getValidationErrors(fieldlist): the item afterwards, the listed
\* fields it has being checked.
checkItem(item, fieldlist) ==
  [item EXCEPT !.validator =
     [f \in DOMAIN @ |->
        IF f \in Listed(fieldlist) /\ has(item.data, f)
        THEN [@[f] EXCEPT !.checked = TRUE] ELSE @[f]]]

hasErrors(errors) == DOMAIN errors # {}

\* A map() without the filter that follows it.
associationErrorsUnfiltered(collection, fieldlist) ==
  [i \in DOMAIN collection |-> getItemErrors(collection[i], fieldlist)]

\* case 'HasMany': map(item => item._getValidationErrors(fieldlist))
\*                 .filter(errors => errors.size > 0)
associationErrors(collection, fieldlist) ==
  SelectSeq([i \in DOMAIN collection |-> getItemErrors(collection[i], fieldlist)],
            hasErrors)

\* _getValidationErrors(fieldlist): the entry one fielditem sets in the
\* errors Map (the empty map when it sets none).
fielditemErrors(fielditem) ==
  LET fieldname == fielditem.name
  IN  IF ~has(fields, fieldname)
      THEN (fieldname :> [error |-> "NOT_FOUND", value |-> ""])
      ELSE IF fielditem.kind = "string"
      THEN IF ~isValid(fieldname, fields[fieldname])
           THEN (fieldname :> [error |-> "NOT_VALID", value |-> fields[fieldname]])
           ELSE <<>>
      ELSE LET errs == associationErrors(fields[fieldname], fielditem.list)
           IN  IF Len(errs) > 0 THEN (fieldname :> errs) ELSE <<>>

\* _getValidationErrors(fieldlist) for a list of leaves and pairs (the
\* fieldnames of one list are distinct).
getNestedValidationErrors(fieldlist) ==
  LET named == {fieldlist[i].name : i \in DOMAIN fieldlist}
      entry(f) == fielditemErrors(
                    fieldlist[CHOOSE i \in DOMAIN fieldlist : fieldlist[i].name = f])
  IN  [f \in {g \in named : hasErrors(entry(g))} |-> entry(f)[f]]

\* The fields afterwards: every item of a listed HasMany association has
\* had the nested list validated.
checkNestedItems(fieldlist) ==
  [f \in DOMAIN fields |->
     IF \E i \in DOMAIN fieldlist :
          fieldlist[i].kind = "array" /\ fieldlist[i].name = f
     THEN LET fielditem == fieldlist[CHOOSE i \in DOMAIN fieldlist :
                              fieldlist[i].kind = "array" /\ fieldlist[i].name = f]
          IN  [i \in DOMAIN fields[f] |-> checkItem(fields[f][i], fielditem.list)]
     ELSE fields[f]]

\* valid(fieldlist) with association pairs.
ValidNested ==
  /\ ~isCollection
  /\ \E fieldlist \in NestedFieldLists :
       LET errors == getNestedValidationErrors(fieldlist)
       IN  /\ validator' =
                [f \in DOMAIN validator |->
                   IF has(fields, f) /\ \E i \in DOMAIN fieldlist : fieldlist[i].name = f
                   THEN [validator[f] EXCEPT !.checked = TRUE] ELSE validator[f]]
           /\ fields' = checkNestedItems(fieldlist)
           /\ lastValid' = [called |-> TRUE, fieldlist |-> fieldlist,
                            result |-> ~hasErrors(errors), errors |-> errors,
                            notified |-> hasErrors(errors)]
  /\ fetchSave' = IdleFlags
  /\ UNCHANGED <<isCollection, endpoint, authentication, isNew, items, count,
                 states, fetchOptions, response, call, hist>>
  /\ UNCHANGED aux

\* The caller assigns the name of one plan (v-model="plan.name").
AssignNested ==
  /\ ~isCollection
  /\ \E i \in DOMAIN fields["plans"], n \in Names :
       /\ n # fields["plans"][i].data["name"]
       /\ fields' = [fields EXCEPT !["plans"][i].data["name"] = n]
  /\ UNCHANGED <<isCollection, endpoint, authentication, isNew, validator,
                 items, count, states, fetchSave, fetchOptions, response, call,
                 lastValid, hist>>
  /\ UNCHANGED aux

\* new User({ id, name, plans: [...] }): the HasMany field holds a
\* collection of newly built plans.
PlanSeqs == UNION {[1..n -> Names] : n \in 0..MaxPlans}

InitNested ==
  /\ endpoint = TRUE
  /\ authentication = FALSE
  /\ isCollection = FALSE
  /\ isNew = "true"
  /\ \E names \in PlanSeqs :
       fields = [id |-> "a", name |-> "x",
                 plans |-> [i \in DOMAIN names |-> NewPlan(names[i])]]
  /\ validator = [id |-> [checked |-> TRUE], name |-> [checked |-> FALSE],
                  plans |-> [checked |-> FALSE]]
  /\ items = <<>>
  /\ count = 0
  /\ InitFetchState
  /\ statics = UserWithPlansClass

NextNested == ValidNested \/ AssignNested

SpecNested == InitNested /\ [][NextNested]_vars

\* ------------------------------------------- BelongsTo / HasOne validation
\* The README's User has a BelongsTo association `sponsor`: the field holds
\* null or one Sponsor item with a `code` field and its own validator.
NullRef == [isNull |-> TRUE, oid |-> 0, data |-> <<>>, validator |-> <<>>]
NewSponsor(c) ==
  [isNull |-> FALSE, oid |-> 1, data |-> [id |-> "a", code |-> c],
   validator |-> [id |-> [checked |-> TRUE], code |-> [checked |-> FALSE]]]

SponsorFieldLists ==
  {<<Pair("sponsor", <<"code">>)>>,
   <<Pair("sponsor", <<"code">>), Leaf("name")>>,
   <<Leaf("name"), Pair("sponsor", <<"code">>)>>}

\* One turn of the loop of _getValidationErrors on an item with a
\* BelongsTo or HasOne field: st holds the validator, the fields and the
\* errors Map so far, and whether the turn threw. With the association
\* null, associationErrors is never assigned and the test of
\* associationErrors.length reads a property of undefined.
validateFielditem(fielditem, st) ==
  LET fieldname == fielditem.name
      checked == [st EXCEPT !.validator[fieldname].checked = TRUE]
  IN  IF ~has(st.fields, fieldname)
      THEN [st EXCEPT !.errors =
              (fieldname :> [error |-> "NOT_FOUND", value |-> ""]) @@ @]
      ELSE IF fielditem.kind = "string"
      THEN IF ~isValid(fieldname, st.fields[fieldname])
           THEN [checked EXCEPT !.errors =
                   (fieldname :> [error |-> "NOT_VALID",
                                  value |-> st.fields[fieldname]]) @@ @]
           ELSE checked
      ELSE IF association(fieldname) \in {"BelongsTo", "HasOne"}
              /\ st.fields[fieldname].isNull
      THEN [checked EXCEPT !.threw = TRUE]
      ELSE LET nested == getItemErrors(st.fields[fieldname], fielditem.list)
           IN  [checked EXCEPT
                  !.fields[fieldname] = checkItem(@, fielditem.list),
                  !.errors = IF hasErrors(nested)
                             THEN (fieldname :> nested) @@ @ ELSE @]

\* The loop of _getValidationErrors from entry i on, left at the throw.
RECURSIVE validateFrom(_, _, _)
validateFrom(fieldlist, i, st) ==
  IF i > Len(fieldlist) \/ st.threw THEN st
  ELSE validateFrom(fieldlist, i + 1, validateFielditem(fieldlist[i], st))

\* valid(fieldlist) on an item with a BelongsTo field.
ValidSponsor ==
  /\ ~isCollection
  /\ \E fieldlist \in SponsorFieldLists :
       LET st == validateFrom(fieldlist, 1,
                              [validator |-> validator, fields |-> fields,
                               errors |-> <<>>, threw |-> FALSE])
       IN  /\ validator' = st.validator
           /\ fields' = st.fields
           /\ IF st.threw
              THEN /\ thrown("TypeError")
                   /\ lastValid' = [NoValid EXCEPT !.called = TRUE,
                                                   !.fieldlist = fieldlist]
              ELSE /\ call' = NoCall
                   /\ lastValid' = [called |-> TRUE, fieldlist |-> fieldlist,
                                    result |-> ~hasErrors(st.errors),
                                    errors |-> st.errors,
                                    notified |-> hasErrors(st.errors)]
  /\ fetchSave' = IdleFlags
  /\ UNCHANGED <<isCollection, endpoint, authentication, isNew, items, count,
                 states, fetchOptions, response, hist>>
  /\ UNCHANGED aux

\* The caller assigns the item's name, its sponsor, or the sponsor's code.
AssignSponsor ==
  /\ ~isCollection
  /\ \/ \E n \in Names :
          /\ n # fields["name"]
          /\ fields' = [fields EXCEPT !["name"] = n]
     \/ /\ has(fields, "sponsor")
        /\ \E v \in {NullRef} \cup {NewSponsor(c) : c \in Names} :
             /\ v # fields["sponsor"]
             /\ fields' = [fields EXCEPT !["sponsor"] = v]
     \/ /\ has(fields, "sponsor")
        /\ ~fields["sponsor"].isNull
        /\ \E c \in Names :
             /\ c # fields["sponsor"].data["code"]
             /\ fields' = [fields EXCEPT !["sponsor"].data["code"] = c]
  /\ UNCHANGED <<isCollection, endpoint, authentication, isNew, validator,
                 items, count, states, fetchSave, fetchOptions, response, call,
                 lastValid, hist>>
  /\ UNCHANGED aux

\* new User({ id, name, sponsor }) or a User hydrated from a payload that
\* carries no sponsor or sponsor: null.
InitSponsor ==
  /\ endpoint = TRUE
  /\ authentication = FALSE
  /\ isCollection = FALSE
  /\ isNew = "true"
  /\ \/ fields = [id |-> "a", name |-> "x"]
     \/ \E v \in {NullRef} \cup {NewSponsor(c) : c \in Names} :
          fields = [id |-> "a", name |-> "x", sponsor |-> v]
  /\ validator = [id |-> [checked |-> TRUE], name |-> [checked |-> FALSE],
                  sponsor |-> [checked |-> FALSE]]
  /\ items = <<>>
  /\ count = 0
  /\ InitFetchState
  /\ statics = UserWithPlansClass

NextSponsor == ValidSponsor \/ AssignSponsor

SpecSponsor == InitSponsor /\ [][NextSponsor]_vars

\* ------------------------------------------------- merge of nested items
\* The sponsor a response carries, as the constructor of the transient
\* item builds it from the nested object: a Sponsor hydrated with exactly
\* the supplied keys, an object of its own.
BuiltSponsor(data, used) ==
  [isNull |-> FALSE, oid |-> FreshOid(1, used), data |-> data,
   validator |-> [id |-> [checked |-> TRUE], code |-> [checked |-> FALSE]]]

\* Bodies of a response to get() on a User: the values of `sponsor` are
\* null or a nested object, with or without its primary key.
SponsorValues ==
  {[isNull |-> TRUE, data |-> <<>>],
   [isNull |-> FALSE, data |-> [code |-> "x"]],
   [isNull |-> FALSE, data |-> [id |-> "b", code |-> ""]]}
MergeBodies ==
  {ObjectBody([name |-> n]) : n \in {"", "x"}}
  \cup {ObjectBody([sponsor |-> v]) : v \in SponsorValues}
  \cup {ObjectBody([id |-> "b", name |-> "x", sponsor |-> v]) : v \in SponsorValues}

\* type.beforeBuild(value, options) of each supplied key: a nested object
\* under a BelongsTo or HasOne field becomes an instance, null stays null.
buildFields(data, used) ==
  [k \in DOMAIN data |->
     IF holdsOne(k)
     THEN IF data[k].isNull THEN NullRef ELSE BuiltSponsor(data[k].data, used)
     ELSE data[k]]

\* Identities of the nested instances the item holds.
NestedOids ==
  {fields[k].oid : k \in {j \in DOMAIN fields : holdsOne(j) /\ ~fields[j].isNull}}

\* response.json() resolves for get() on a User: the body is built into a
\* transient item and merged, then get.progressing is cleared.
JsonResolvedSponsor ==
  /\ call.pc = "json"
  /\ ~isCollection
  /\ \E serverData \in MergeBodies :
       /\ mutateData([kind |-> "item", isNew |-> "false",
                      data |-> buildFields(serverData.data, NestedOids)])
       /\ call' = [call EXCEPT !.pc = "resolved", !.body = Some(serverData)]
  /\ states' = doneStates(states, call.method)
  /\ UNCHANGED <<isCollection, endpoint, authentication, validator, fetchSave,
                 fetchOptions, response, lastValid, hist>>
  /\ UNCHANGED aux

\* Between two calls the caller validates.
CallerStep == CallIdle /\ ValidSponsor

NextMerge ==
  \/ Get
  \/ AbortTimeout
  \/ TransportReject
  \/ ResponseNotOk
  \/ ResponseOk
  \/ JsonResolvedSponsor
  \/ JsonRejected
  \/ CallerStep

SpecMerge == InitSponsor /\ [][NextMerge]_vars

\* ------------------------------------------------ class and construction
\* Raw schemas a class is initialised with: two fields in order, each with
\* or without a type, a primaryKey mark, a default and an autoChecked.
RawConfs(name) ==
  {RawField(name, TRUE, pk, dv, ac) :
     pk \in {None, Some(TRUE)},
     dv \in {None, Some(PlainDefault("d")), Some(FunctionDefault)},
     ac \in {None, Some(FALSE)}}
  \cup {RawField(name, FALSE, None, None, None)}
RawSchemas == {<<a, b>> : a \in RawConfs("id"), b \in RawConfs("name")}

\* Objects a caller constructs an item from: any of the schema's fields, a
\* `primaryKey` property and a property the schema does not declare, each
\* blank or not.
InputKeys == {"id", "name", "primaryKey", "zip"}
ItemInputs == UNION {[S -> {"", "v"}] : S \in SUBSET InputKeys}

\* The class calls init({ schema }) in its static block.
ModelInit ==
  /\ statics = NoClass
  /\ \E raw \in RawSchemas : statics' = init(statics, raw)
  /\ UNCHANGED <<isCollection, endpoint, authentication, isNew, fields,
                 validator, items, count, states, fetchSave, fetchOptions,
                 response, call, lastValid, hist, built, inflight>>

\* new Model(data, options) with an object: the instance modelled is the
\* one constructed (a string type's beforeBuild returns the string it is
\* given). When _buildRawItem throws, no instance is constructed (the
\* instance's variables are as they are before any construction).
Construct ==
  /\ statics.err = "none"
  /\ built = None
  /\ \E input \in ItemInputs, optIsNew \in {None, Some(FALSE)} :
       LET new == optIsNew = None
           raw == IF new /\ statics.schema # None
                  THEN buildRawItem(statics, input)
                  ELSE [threw |-> FALSE, data |-> input, defaultArgs |-> <<>>]
       IN  /\ built' = Some([input |-> input, isNew |-> new,
                             threw |-> raw.threw,
                             defaultArgs |-> raw.defaultArgs])
           /\ isCollection' = FALSE
           /\ IF raw.threw
              THEN /\ isNew' = "undefined"
                   /\ fields' = <<>>
                   /\ validator' = <<>>
              ELSE /\ isNew' = IF new THEN "true" ELSE "false"
                   /\ fields' = raw.data
                   /\ validator' =
                        IF statics.schema = None THEN <<>>
                        ELSE [f \in SchemaNames(statics.schema[1]) |->
                                [checked |->
                                   fieldconf(statics.schema[1], f).autoChecked[1]]]
           /\ items' = <<>>
           /\ count' = 0
           /\ states' = InitStates
           /\ fetchSave' = IdleFlags
           /\ fetchOptions' = None
           /\ response' = None
           /\ call' = NoCall
           /\ lastValid' = NoValid
           /\ hist' = <<>>
  /\ UNCHANGED <<endpoint, authentication, statics, inflight>>

\* The class as declared, and no instance yet.
InitSchema ==
  /\ endpoint = TRUE
  /\ authentication = FALSE
  /\ isCollection = FALSE
  /\ isNew = "undefined"
  /\ fields = <<>>
  /\ validator = <<>>
  /\ items = <<>>
  /\ count = 0
  /\ InitFetchState
  /\ statics = NoClass

NextSchema == ModelInit \/ Construct

SpecSchema == InitSchema /\ [][NextSchema]_vars

\* ------------------------------------------------------ overlapping calls
\* Two callers hold the instance and call get() without waiting for each
\* other. What each call keeps to itself is its options argument and the
\* promise it awaits; the remembered options, the response and the flags
\* are the instance's and are shared. fetch() suspends at the await of
\* _buildRequestInit, at the await of the transport and at the await of
\* response.json().
Slots == {1, 2}

NoFlight ==
  [pc |-> "none", options |-> None, parsing |-> None, merged |-> None,
   err |-> "none"]

\* The body of a response that is not ok, when it is JSON.
ErrorBodies == {ObjectBody([message |-> "x"])}

\* get(pathname) by caller i, up to the await of _buildRequestInit.
OverlapGet(i) ==
  /\ endpoint
  /\ inflight[i].pc \in {"none", "resolved", "rejected"}
  /\ \E options \in
          (IF isCollection
           THEN {[extend |-> Some(FALSE), method |-> "GET", pathname |-> <<>>,
                  searchParams |-> Some([limit |-> DefaultLimit,
                                         offset |-> DefaultOffset])]}
           ELSE {[extend |-> None, method |-> "GET", pathname |-> <<"a">>,
                  searchParams |-> None]}) :
       /\ fetchOptions' = Some(options)
       /\ inflight' = [inflight EXCEPT ![i] = [NoFlight EXCEPT !.pc = "init",
                                                              !.options = Some(options)]]
  /\ response' = None
  /\ states' = [resetStates(states) EXCEPT
                  !.get = [progressing |-> TRUE, succeeded |-> FALSE,
                           failed |-> FALSE]]
  /\ UNCHANGED <<isCollection, endpoint, authentication, isNew, fields,
                 validator, items, count, fetchSave, call, lastValid, hist,
                 statics, built>>

\* _buildRequestInit resolved: the timeout is armed, the transport called.
OverlapRequest(i) ==
  /\ inflight[i].pc = "init"
  /\ inflight' = [inflight EXCEPT ![i].pc = "request"]
  /\ UNCHANGED <<isCollection, endpoint, authentication, isNew, fields,
                 validator, items, count, states, fetchSave, fetchOptions,
                 response, call, lastValid, hist, statics, built>>

\* The transport settles for caller i: the try and catch blocks, then the
\* test of this.$restinfront.fetch.states.succeeded and, when it is true,
\* the call of json() on this.$restinfront.fetch.response (null, or a
\* response whose body was read already: the call rejects).
OverlapTransport(i) ==
  /\ inflight[i].pc = "request"
  /\ \E outcome \in {"ok", "notok", "reject"} :
       LET resp == IF outcome = "reject" THEN response
                   ELSE Some([ok |-> outcome = "ok",
                              status |-> IF outcome = "ok" THEN "2xx" ELSE "5xx",
                              of |-> i, bodyUsed |-> FALSE])
           st == IF outcome = "ok" THEN succeedStates(states, "GET")
                 ELSE failStates(states, "GET")
       IN  IF ~st.succeeded
           THEN /\ response' = resp
                /\ states' = doneStates(st, "GET")
                /\ inflight' = [inflight EXCEPT ![i].pc = "resolved"]
           ELSE IF resp = None \/ resp[1].bodyUsed
           THEN /\ response' = resp
                /\ states' = st
                /\ inflight' = [inflight EXCEPT ![i].pc = "rejected",
                                                ![i].err = "TypeError"]
           ELSE /\ response' = Some([resp[1] EXCEPT !.bodyUsed = TRUE])
                /\ states' = st
                /\ inflight' = [inflight EXCEPT ![i].pc = "json",
                                                ![i].parsing = resp]
  /\ UNCHANGED <<isCollection, endpoint, authentication, isNew, fields,
                 validator, items, count, fetchSave, fetchOptions, call,
                 lastValid, hist, statics, built>>

\* json() resolves for caller i: the body is formatted and merged with the
\* remembered options of the moment, then get.progressing is cleared.
OverlapJson(i) ==
  /\ inflight[i].pc = "json"
  /\ \E serverData \in
          (IF ~inflight[i].parsing[1].ok THEN ErrorBodies
           ELSE IF isCollection THEN CollectionBodies ELSE ItemBodies) :
       mutateData(formatData(serverData, Oids(items)))
  /\ inflight' = [inflight EXCEPT ![i].pc = "resolved",
                                  ![i].merged = inflight[i].parsing]
  /\ states' = doneStates(states, "GET")
  /\ UNCHANGED <<isCollection, endpoint, authentication, validator, fetchSave,
                 fetchOptions, response, call, lastValid, hist, statics, built>>

\* json() rejects for caller i (the body is not JSON).
OverlapJsonRejected(i) ==
  /\ inflight[i].pc = "json"
  /\ inflight' = [inflight EXCEPT ![i].pc = "rejected", ![i].err = "SyntaxError"]
  /\ UNCHANGED <<isCollection, endpoint, authentication, isNew, fields,
                 validator, items, count, states, fetchSave, fetchOptions,
                 response, call, lastValid, hist, statics, built>>

InitOverlap ==
  /\ endpoint = TRUE
  /\ authentication = FALSE
  /\ InitItem \/ InitCollection
  /\ states = InitStates
  /\ fetchSave = IdleFlags
  /\ fetchOptions = None
  /\ response = None
  /\ call = NoCall
  /\ lastValid = NoValid
  /\ hist = <<>>
  /\ built = None
  /\ statics = UserClass
  /\ inflight = [i \in Slots |-> NoFlight]

NextOverlap ==
  \E i \in Slots :
    \/ OverlapGet(i)
    \/ OverlapRequest(i)
    \/ OverlapTransport(i)
    \/ OverlapJson(i)
    \/ OverlapJsonRejected(i)

SpecOverlap == InitOverlap /\ [][NextOverlap]_vars

\* ================================================================ claims
\* The call has finished: its promise is settled.
Finished == call.pc \in {"resolved", "rejected"}

\* The call issued its request and got no 2xx response for it: the
\* transport rejected (network failure, abort of the timeout) or the
\* response was not ok.
RequestFailed ==
  /\ Len(call.sent) = 1
  /\ call.pc \notin {"token", "request"}
  /\ response = None \/ ~response[1].ok

\* The sub-state of the call's operation class: `get` for GET, else the
\* item's `save` sub-state.
opFlags(method) ==
  IF method = "GET" THEN states.get
  ELSE IF has(states, "save") THEN states.save ELSE fetchSave

ItemKeys(seq) == [i \in DOMAIN seq |-> seq[i].id]

\* hasMore: this.length < this.$restinfront.count
hasMore == Len(items) < count

\* C1: a fetch whose request times out, is rejected by the transport or
\* gets a non-2xx response leaves the fields (for a collection the items
\* and count) as they were before the call, sets failed globally and for
\* the call's operation class, and does not turn isNew from true to false.
C1_FailedFetchLeavesData ==
  (Finished /\ RequestFailed) =>
    /\ fields = call.pre[1].fields
    /\ items = call.pre[1].items
    /\ count = call.pre[1].count
    /\ states.failed
    /\ opFlags(call.method).failed
    /\ ~(call.pre[1].isNew = "true" /\ isNew = "false")

\* C1 witness: a request aborted by the timeout, on an instance that an
\* earlier successful fetch had filled.
C1_Witness ==
  /\ Finished /\ RequestFailed /\ call.aborted
  /\ states.succeededOnce
  /\ Len(items) > 0 \/ isNew = "false"

\* C2: succeededOnce is false at construction, turns true only on a step
\* where the transport answers 2xx, and once true stays true.
C2_SucceededOnceLatch ==
  /\ ~states.succeededOnce
  /\ [][/\ states.succeededOnce => states'.succeededOnce
        /\ (~states.succeededOnce /\ states'.succeededOnce) =>
             (call.pc = "request" /\ response' # None /\ response'[1].ok)]_vars

\* C2 witness: a fetch failed after an earlier one had succeeded.
C2_Witness ==
  /\ Finished /\ RequestFailed
  /\ states.succeededOnce /\ states.failed

\* C3: when a fetch that passed the endpoint check has finished, the
\* progressing flag of its operation class is false, however it finished.
C3_ProgressingClearedOnExit ==
  (Finished /\ call.method # "none" /\ call.err # "RestinfrontError:endpoint") =>
    ~opFlags(call.method).progressing

\* C4: a fetch whose request failed resolves normally, with onFetchError
\* invoked exactly once with the error and the response; onFetchError is
\* not invoked for a call that got a 2xx response.
C4_FetchErrorNotThrown ==
  /\ (Finished /\ RequestFailed) =>
       /\ call.pc = "resolved"
       /\ Len(call.onFetchError) = 1
       /\ call.onFetchError[1].response = response
  /\ (Len(call.sent) = 1 /\ response # None /\ response[1].ok) =>
       call.onFetchError = <<>>

\* C4 witness: a non-2xx response has been handled.
C4_Witness ==
  /\ Finished /\ RequestFailed
  /\ response # None /\ ~response[1].ok

\* C5: when the token provider yields a falsy token the call issues no
\* request, reports the error through onFetchError and ends failed,
\* globally and for its operation class.
C5_FalsyTokenReported ==
  (Finished /\ call.err = "RestinfrontError:token") =>
    /\ call.sent = <<>>
    /\ Len(call.onFetchError) = 1
    /\ states.failed
    /\ opFlags(call.method).failed

\* The rows and total of a body that follows the list wire contract.
IsWirePage(body) ==
  bodyHas(body, collectionDataKey) /\ bodyHas(body, collectionCountKey)

\* C6: after a successful get() on a collection whose body holds the
\* configured data key and count key, the items are the body's rows in
\* order, count is the body's total, and hasMore is true exactly when
\* there are fewer rows than the total.
C6_PageReplacesCollection ==
  (/\ isCollection /\ call.op = "get" /\ call.pc = "resolved"
   /\ call.body # None /\ IsWirePage(call.body[1])) =>
    LET page == call.body[1].data
    IN  /\ ItemKeys(items) = page[collectionDataKey]
        /\ count = page[collectionCountKey]
        /\ hasMore <=> Len(page[collectionDataKey]) < page[collectionCountKey]

\* The rows a list response carries, bare or under the data key.
BodyRows(body) ==
  IF body.kind = "array" THEN body.rows ELSE body.data[collectionDataKey]

\* C7: getMore() after a get() requests the remembered pathname and limit
\* with offset = previous offset + limit; when it succeeds the new rows
\* are appended and the items held before keep place and identity.
C7_GetMoreAppends ==
  (call.op = "getMore" /\ call.remembered # None) =>
    LET old == call.remembered[1]
        want == [extend |-> Some(TRUE), method |-> "GET",
                 pathname |-> old.pathname,
                 searchParams |->
                   Some([limit |-> old.searchParams[1].limit,
                         offset |-> old.searchParams[1].offset
                                      + old.searchParams[1].limit])]
    IN  /\ Len(call.sent) = 1 =>
             /\ call.sent[1].method = "GET"
             /\ call.sent[1].url = buildRequestUrl(want)
        /\ (call.pc = "resolved" /\ call.body # None) =>
             /\ Len(items) = Len(call.pre[1].items) + Len(BodyRows(call.body[1]))
             /\ SubSeq(items, 1, Len(call.pre[1].items)) = call.pre[1].items
             /\ ItemKeys(SubSeq(items, Len(call.pre[1].items) + 1, Len(items)))
                  = BodyRows(call.body[1])

\* C8: save() on a new item issues one POST whose pathname has no primary
\* key segment; on a persisted item one PUT whose pathname starts with the
\* item's primary key.
C8_SaveIssuesRequest ==
  (/\ call.op = "save" /\ Finished
   /\ call.err \notin {"RestinfrontError:endpoint", "RestinfrontError:token"}) =>
    /\ Len(call.sent) = 1
    /\ IF call.pre[1].isNew = "true"
       THEN /\ call.sent[1].method = "POST"
            /\ call.sent[1].url.path = <<"endpoint">>
       ELSE /\ call.sent[1].method = "PUT"
            /\ call.sent[1].url.path
                 = <<"endpoint", call.pre[1].fields[primaryKeyFieldname]>>

\* The two remembered calls are add(x) then remove(ref), ref being the
\* primary key of the added instance or x itself.
AddThenRemove ==
  /\ Len(hist) = 2
  /\ hist[2].op = "add"
  /\ hist[1].op = "remove"
  /\ hist[1].ref[1] \in {ByKey(hist[2].result.items[1].id),
                         ByObject(hist[2].item[1])}

\* C9 as stated: add(x) then remove(ref) with the same reference leaves
\* length and count as before the add, and exists(ref) is false afterward.
C9_AddRemoveThenAbsent ==
  AddThenRemove =>
    /\ Len(items) = Len(hist[2].pre.items)
    /\ count = hist[2].pre.count
    /\ ~exists(items, hist[1].ref[1])

\* C9 amended: add(x) then remove(ref) with the same reference leaves
\* length and count as before the add, and exists(ref) is afterward what it
\* was before the add (remove takes the first match out, an older item
\* with that primary key when there is one).
C9_AddRemoveInverse ==
  AddThenRemove =>
    /\ Len(items) = Len(hist[2].pre.items)
    /\ count = hist[2].pre.count
    /\ exists(items, hist[1].ref[1]) <=> exists(hist[2].pre.items, hist[1].ref[1])

\* C9 witness: add then remove on a collection that already held an item
\* with that primary key.
C9_Witness ==
  /\ AddThenRemove
  /\ exists(hist[2].pre.items, hist[1].ref[1])
  /\ hist[1].result.kind = "array"

\* The number of items of each primary key.
Membership(seq) ==
  [k \in Keys |-> Cardinality({i \in DOMAIN seq : seq[i].id = k})]

\* The two remembered calls are toggle(item, callback) with the same
\* arguments.
ToggledTwice ==
  /\ Len(hist) = 2
  /\ hist[1].op = "toggle" /\ hist[2].op = "toggle"
  /\ hist[1].item = hist[2].item
  /\ hist[1].ref = hist[2].ref

\* The items the toggle's reference matched before the first toggle.
MatchesBefore ==
  {i \in DOMAIN hist[2].pre.items :
     getCollectionCallback(hist[2].ref[1], hist[2].pre.items[i])}

\* C10 as stated: toggling the same reference twice returns the collection
\* to its prior membership and length, whatever the collection holds.
C10_ToggleTwiceRestores ==
  ToggledTwice =>
    /\ Membership(items) = Membership(hist[2].pre.items)
    /\ Len(items) = Len(hist[2].pre.items)

\* C10 amended: with at most one item matching the reference before, and a
\* callback (if given) that matches exactly the items with the toggled
\* item's primary key, two toggles restore membership and length; with two
\* or more matching items, two toggles remove two of them.
C10_ToggleTwiceSingle ==
  (/\ ToggledTwice
   /\ hist[2].ref[1].kind = "function" => hist[2].ref[1].keys = {hist[2].item[1].id}) =>
    /\ Cardinality(MatchesBefore) <= 1 =>
         /\ Membership(items) = Membership(hist[2].pre.items)
         /\ Len(items) = Len(hist[2].pre.items)
    /\ Cardinality(MatchesBefore) > 1 =>
         Len(items) = Len(hist[2].pre.items) - 2

\* C10 witness: an item that was present once has been toggled out and in
\* again.
C10_Witness ==
  /\ ToggledTwice
  /\ Cardinality(MatchesBefore) = 1
  /\ hist[2].result.kind = "array"
  /\ hist[1].result.kind = "instance"

\* C11 as stated: beforeSerialize({removeInvalid: true}) on an item emits a
\* declared field exactly when the field is not checked, or is checked and
\* currently valid.
C11_SerializeKeepsUnchecked ==
  ~isCollection =>
    \A f \in SchemaFields :
      has(beforeSerializeItem(TRUE), f)
        <=> (~validator[f].checked \/ isValid(f, fields[f]))

\* C11 amended: beforeSerialize({removeInvalid: true}) on an item emits a
\* declared field, with its current value, exactly when the field is checked
\* and currently valid; unchecked fields are omitted like invalid ones, and
\* without removeInvalid every declared field is emitted.
C11_SerializeValidatedOnly ==
  ~isCollection =>
    /\ \A f \in SchemaFields :
         /\ has(beforeSerializeItem(TRUE), f)
              <=> (validator[f].checked /\ isValid(f, fields[f]))
         /\ has(beforeSerializeItem(TRUE), f) =>
              beforeSerializeItem(TRUE)[f] = fields[f]
    /\ DOMAIN beforeSerializeItem(FALSE) = SchemaFields

\* C11 witness: an item whose primary key is checked and valid (emitted)
\* and whose name was never validated (omitted, though its value is valid).
C11_Witness ==
  /\ ~isCollection
  /\ ~validator["name"].checked /\ isValid("name", fields["name"])
  /\ DOMAIN beforeSerializeItem(TRUE) = {"id"}

\* C12: valid([f]) on an item, f a schema field with allowBlank false and
\* no custom validator, returns false and leaves error(f) true when the
\* value of f is blank or is rejected by the type, else returns true and
\* leaves error(f) false; f is checked afterward, and onValidationError is
\* invoked exactly when the result is false.
C12_ValidSingleField ==
  [][\A f \in SchemaFields :
       (lastValid'.fieldlist = <<f>> /\ Valid) =>
         LET bad == TypeIsBlank(fields[f]) \/ ~TypeIsValid(fields[f])
         IN  /\ lastValid'.result = ~bad
             /\ error(f)' = bad
             /\ validator'[f].checked
             /\ lastValid'.notified = bad]_vars

\* C12 witness: valid(['name']) has just rejected a non-blank value that
\* the type rejects.
C12_Witness ==
  /\ lastValid.fieldlist = <<"name">>
  /\ ~lastValid.result /\ lastValid.notified
  /\ fields["name"] = NotAString
  /\ error("name")

\* The items of the plans association that the nested list finds fault
\* with: a listed field the item lacks, or holds blank or rejected.
InvalidPlans(list) ==
  {i \in DOMAIN fields["plans"] :
     \E f \in Listed(list) :
       \/ ~has(fields["plans"][i].data, f)
       \/ TypeIsBlank(fields["plans"][i].data[f])
       \/ ~TypeIsValid(fields["plans"][i].data[f])}

PrimaryKeyFields ==
  {statics.schema[1][i].name :
     i \in {j \in DOMAIN statics.schema[1] :
              statics.schema[1][j].primaryKey = Some(TRUE)}}

\* C14: whatever raw schema init() was given, the compiled schema has at
\* most one field with primaryKey = true, and that field is the one
\* primaryKeyFieldname names.
C14_SinglePrimaryKey ==
  (statics.schema # None /\ statics.err = "none") =>
    /\ Cardinality(PrimaryKeyFields) <= 1
    /\ \A f \in PrimaryKeyFields : statics.primaryKeyFieldname = Some(f)

\* C15: constructing a new item from any input object yields an instance
\* whose fields are exactly the schema's fields, each holding the supplied
\* value if one was given, else the schema default, the primary key being
\* the value passed to every other field's default function.
C15_NewItemFullyPopulated ==
  (built # None /\ built[1].isNew /\ statics.schema # None) =>
    LET schema == statics.schema[1]
        input == built[1].input
    IN  /\ ~built[1].threw
        /\ DOMAIN fields = SchemaNames(schema)
        /\ \A f \in SchemaNames(schema) :
             /\ has(input, f) => fields[f] = input[f]
             /\ (~has(input, f) /\ Some(f) # statics.primaryKeyFieldname) =>
                  /\ fields[f] = callDefault(fieldconf(schema, f).defaultValue[1],
                                             fields[statics.primaryKeyFieldname[1]])
                  /\ built[1].defaultArgs[f] = fields[statics.primaryKeyFieldname[1]]
             /\ (~has(input, f) /\ Some(f) = statics.primaryKeyFieldname) =>
                  fields[f] = callDefault(fieldconf(schema, f).defaultValue[1],
                                          Undefined)

\* A step that calls an item-only operation, or a collection-only one.
ItemOnlyCall == Valid \/ Post \/ Put \/ Patch \/ Save
CollectionOnlyCall ==
  ItemsOp \/ Add \/ Remove \/ Find \/ Exists \/ Toggle \/ Clear \/ GetMore

\* C16: no step changes the mode of the instance; an item-only operation
\* called on a collection, and a collection-only operation called on an
\* item, fails with the library's error and changes neither the data of
\* the instance nor its fetch state.
C16_ModeIsFixed ==
  [][/\ isCollection' = isCollection
     /\ ((isCollection /\ ItemOnlyCall) \/ (~isCollection /\ CollectionOnlyCall)) =>
          /\ call'.pc = "rejected"
          /\ call'.err = IF isCollection THEN CannotBeCollection
                         ELSE MustBeCollection
          /\ UNCHANGED <<fields, items, count, isNew, validator>>
          /\ UNCHANGED <<states, fetchSave, fetchOptions, response>>]_vars

\* C16 witness: a collection method has just thrown on an item that an
\* earlier valid() and a fetch had left their marks on.
C16_Witness ==
  /\ ~isCollection
  /\ call.err = MustBeCollection
  /\ lastValid.called /\ states.succeededOnce

\* The call went into fetch() and past its endpoint check (a getMore()
\* with no request to repeat throws before it calls fetch()).
EnteredFetch ==
  /\ call.method # "none"
  /\ call.err # "RestinfrontError:endpoint"
  /\ ~(call.op = "getMore" /\ call.remembered = None)

\* At most one of a sub-state's three flags is true.
AtMostOneFlag(sub) ==
  Cardinality({f \in {"progressing", "succeeded", "failed"} : sub[f]}) <= 1

\* The save sub-state the instance exposes in its fetch state, when it has
\* one there.
ExposedSubStates ==
  {states.get} \cup (IF has(states, "save") THEN {states.save} ELSE {})

\* C17: under sequential use each operation sub-state has at most one of
\* progressing, succeeded and failed true in every state, and a call that
\* passed the endpoint check ends with its sub-state succeeded or failed.
C17_SubStateMachine ==
  /\ \A sub \in ExposedSubStates \cup {fetchSave} : AtMostOneFlag(sub)
  /\ (Finished /\ EnteredFetch) =>
       (opFlags(call.method).succeeded \/ opFlags(call.method).failed)

\* C18: under sequential use, whenever no fetch is in flight the global
\* progressing, succeeded and failed flags equal those of the sub-state of
\* the most recent call (one that passed the endpoint check).
C18_GlobalFlagsMirror ==
  (Finished /\ EnteredFetch) =>
    /\ states.progressing = opFlags(call.method).progressing
    /\ states.succeeded = opFlags(call.method).succeeded
    /\ states.failed = opFlags(call.method).failed

\* C19: a valid(fieldlist) call on an item leaves the save sub-state of the
\* instance's fetch state (the one a POST/PUT/PATCH fetch writes) with its
\* three flags false, and leaves the get sub-state and the global flags as
\* they were.
C19_ValidResetsSave ==
  [][(~isCollection /\ Valid) =>
       /\ has(states', "save")
       /\ states'.save = IdleFlags
       /\ states'.get = states.get
       /\ states'.progressing = states.progressing
       /\ states'.succeeded = states.succeeded
       /\ states'.failed = states.failed]_vars

\* C20: when fetch() calls overlap on an instance, data is merged into it
\* only from the body of a response that was ok, never from the body of a
\* failed or non-2xx response.
C20_OverlapMergesOnlyOk ==
  \A i \in Slots :
    inflight[i].merged # None => inflight[i].merged[1].ok

\* C21: valid([[assoc, nestedList]]) on an item whose BelongsTo or HasOne
\* field assoc is null completes without throwing, records no error under
\* assoc, marks assoc checked and validates the remaining entries of the
\* list.
C21_NullAssociationSkipped ==
  [][\A fieldlist \in SponsorFieldLists :
       (/\ lastValid'.fieldlist = fieldlist
        /\ has(fields, "sponsor")
        /\ fields["sponsor"].isNull
        /\ ValidSponsor) =>
         /\ call'.err = "none"
         /\ ~has(lastValid'.errors, "sponsor")
         /\ validator'["sponsor"].checked
         /\ \A i \in DOMAIN fieldlist :
              fieldlist[i].kind = "string" => validator'[fieldlist[i].name].checked]_vars

\* C22: remove(ref) on a collection, for a primary-key string, an object
\* holding the primary key or a predicate: with a match it removes the first
\* match only, lowers count by one and returns the removed item itself; with
\* none it returns null and leaves the sequence and count unchanged.
C22_RemoveReturnsItem ==
  (hist # <<>> /\ hist[1].op = "remove") =>
    LET pre == hist[1].pre
        indexToRemove == findIndex(pre.items, hist[1].ref[1])
    IN  IF indexToRemove = 0
        THEN /\ hist[1].result = NullResult
             /\ items = pre.items
             /\ count = pre.count
        ELSE /\ items = splice(pre.items, indexToRemove)
             /\ count = pre.count - 1
             /\ hist[1].result = InstanceResult(pre.items[indexToRemove])

\* C23: every add, remove or toggle on a collection changes the length by
\* +1 when it adds, by -1 when it removes and not at all when remove finds
\* no match, and changes count by the same amount, so count - length stays
\* what it was.
C23_CountTracksLength ==
  [][/\ count' - Len(items') = count - Len(items)
     /\ hist' # hist =>
          /\ hist'[1].result.kind = "instance" => Len(items') = Len(items) + 1
          /\ hist'[1].result.kind = "array" => Len(items') = Len(items) - 1
          /\ hist'[1].result.kind = "null" => Len(items') = Len(items)]_vars

\* C23 witness: an add then a remove that found a match, on a collection
\* whose count is not its length and which still holds an item.
C23_Witness ==
  /\ Len(hist) = 2
  /\ hist[2].result.kind = "instance"
  /\ hist[1].result.kind = "array"
  /\ count # Len(items)
  /\ Len(items) > 0

\* C24: merging a successful response into an item changes only what the
\* response carries: a field absent from it keeps its value; a field that
\* holds a nested instance on both sides keeps that instance, merged the
\* same way; isNew is copied, and the validator's checked flags and the
\* fetch state are as they were (the call then clears get.progressing).
C24_MergeChangesOnlyCarried ==
  [][(~isCollection /\ call.pc = "json" /\ call'.pc = "resolved") =>
       LET data == call'.body[1].data
       IN  /\ \A k \in DOMAIN fields \ DOMAIN data : fields'[k] = fields[k]
           /\ \A k \in DOMAIN data :
                IF ~holdsOne(k) THEN fields'[k] = data[k]
                ELSE IF data[k].isNull THEN fields'[k].isNull
                ELSE /\ fields'[k].data =
                          [j \in DOMAIN fields'[k].data |->
                             IF j \in DOMAIN data[k].data THEN data[k].data[j]
                             ELSE fields[k].data[j]]
                     /\ (has(fields, k) /\ ~fields[k].isNull) =>
                          /\ fields'[k].oid = fields[k].oid
                          /\ fields'[k].validator = fields[k].validator
                          /\ DOMAIN fields[k].data \subseteq DOMAIN fields'[k].data
           /\ isNew' = "false"
           /\ validator' = validator
           /\ fetchSave' = fetchSave
           /\ fetchOptions' = fetchOptions
           /\ response' = response
           /\ states' = [states EXCEPT !.get.progressing = FALSE]]_vars

\* C24 witness: a response carrying a sponsor without its primary key has
\* been merged into a User whose sponsor was an instance with a checked
\* field, and that instance is still the one the User holds.
C24_Witness ==
  /\ call.pc = "resolved"
  /\ call.body # None
  /\ has(call.body[1].data, "sponsor")
  /\ ~has(call.body[1].data, "name")
  /\ ~call.body[1].data["sponsor"].isNull
  /\ ~has(call.body[1].data["sponsor"].data, "id")
  /\ has(call.pre[1].fields, "sponsor")
  /\ ~call.pre[1].fields["sponsor"].isNull
  /\ fields["sponsor"].oid = call.pre[1].fields["sponsor"].oid
  /\ fields["sponsor"].validator["code"].checked
  /\ fields["sponsor"].data["code"] # call.pre[1].fields["sponsor"].data["code"]
  /\ validator["sponsor"].checked

\* C25: on a class whose schema marks no field primaryKey, init completes
\* and constructing a new item completes without throwing.
C25_NoPrimaryKeyNotFatal ==
  (/\ statics.schema # None
   /\ statics.err = "none"
   /\ statics.primaryKeyFieldname = None
   /\ built # None
   /\ built[1].isNew) =>
    ~built[1].threw

\* C28: clear() on a collection empties it and lowers count by the number
\* of items it removes; when count equalled the length before, count is 0
\* and hasMore is false afterwards.
C28_ClearKeepsCount ==
  [][(isCollection /\ Clear) =>
       /\ items' = <<>>
       /\ count' = count - Len(items)
       /\ count = Len(items) => (count' = 0 /\ ~hasMore')]_vars

\* C27: a getMore() whose request fails does not advance the remembered
\* offset, so the next getMore() asks for the same page again.
C27_FailedGetMoreKeepsOffset ==
  (/\ call.op = "getMore"
   /\ call.remembered # None
   /\ call.pc = "resolved"
   /\ RequestFailed) =>
    fetchOptions[1].searchParams[1].offset
      = call.remembered[1].searchParams[1].offset

\* C26: every fetch() call that starts eventually finishes with succeeded
\* or failed set, given only that the timer fires and that the transport
\* rejects an aborted request.
C26_FetchTerminates ==
  (call.pc \in {"token", "request", "json"})
    ~> (Finished /\ (states.succeeded \/ states.failed))

====
